---- MODULE Spec2Model ----
(***************************************************************************)
(* The chat synchronization and read-state subsystem: the chat page        *)
(* (src/pages/Chat.tsx), the ChatBox component and the hosted store they   *)
(* talk to (tables chats, messages, profiles and its change notifications).*)
(*                                                                         *)
(* Execution is a single event loop: every action below is one turn of it, *)
(* from one suspension point (await) of the code to the next.  A store     *)
(* round trip that the code awaits without reading or writing component    *)
(* state in between is folded into the turn that follows it.               *)
(***************************************************************************)
EXTENDS Integers, Sequences, FiniteSets, TLC

\* ------------------------------------------------------------------ bounds
\* Messages sent while the page is open (Spec, ComposerSpec, DebounceSpec).
MaxMsgs == 2
\* Messages the table holds when the page is opened (SwitchSpec).
MaxHistory == 1
\* Unread messages of conversation c1 when the page is opened (OpenSpec).
MaxUnread == 3
\* Calls of one asynchronous function (per argument) that may be in flight.
MaxInflight == 1
\* updateCalls counts up to this many update calls per row.
MaxCalls == 2
\* Milliseconds by which Tick advances the time.
TickMs == 100
\* burst counts up to this many runs of the marker effect.
MaxBurst == 3

\* channels counts up to this many open handles per channel name.
MaxOpen == 2

\* ChatBox: `setTimeout(markMessagesAsRead, 500)`
DebounceMs == 500
\* markTimer when no timeout is pending
NoTimer == -1

\* handleCreateTask calls whose insert is under way at one time
MaxCreates == 2

\* rows of the tasks table, created or being created
MaxTasks == 5

\* handleApplyForTask calls under way at one time, per task
MaxApplies == 2

\* application rows and calls under way, per task
MaxApplications == 3

\* the longest password typed
MaxPassword == 9

\* ForgotPassword: `otp.length === 6`
OtpLength == 6

\* ForgotPassword: `password.length < 8`
MinPassword == 8

\* Task page: `tasks.filter(t => t.status === 'active').length >= 3`
TaskLimit == 3

\* ------------------------------------------------------------ identities

\* the tasks of other users the user may apply for
TaskIds == {"t1", "t2"}

Viewer == "V"
NoUser == "nouser"
None == "none"
Undefined == "undefined"
UnknownUser == "Unknown User"

\* The chats table: store-assigned id, two participants, creation time.
\* The viewer is user1 of c1 and c3, user2 of c2, and no participant of c4.
ChatsTable ==
  { [id |-> "c1", user1_id |-> "V", user2_id |-> "P", created_at |-> 1],
    [id |-> "c2", user1_id |-> "Q", user2_id |-> "V", created_at |-> 2],
    [id |-> "c3", user1_id |-> "V", user2_id |-> "R", created_at |-> 3],
    [id |-> "c4", user1_id |-> "P", user2_id |-> "Q", created_at |-> 4] }

ChatIds == { c.id : c \in ChatsTable }

ChatRow(id) == CHOOSE c \in ChatsTable : c.id = id

\* profiles.username; R's row has no username.
Username(id) ==
  CASE id = "V" -> "vera"
    [] id = "P" -> "paul"
    [] id = "Q" -> "quin"
    [] OTHER -> None

\* Variant of DisplayName: the lookup's result as it is.
RawUsername(id) == Username(id)

\* `data?.username || 'Unknown User'`
DisplayName(id) == IF Username(id) = None THEN UnknownUser ELSE Username(id)

\* What the composer's text box may hold, and String.prototype.trim of it.
Texts == {"", " ", "hi"}

Trim(t) == IF t = " " THEN "" ELSE t

\* Content of the messages the other participants write.
PeerText == "yo"

\* The descriptions of the error toasts of fetchChats, fetchMessages,
\* handleSendMessage and the messages handler.
ChatsToast == "Failed to load chats. Please try again later."

MessagesToast == "Failed to load messages. Please try again later."

SendToast == "Failed to send message. Please try again."

HandlerToast == "Failed to update messages. Please refresh the page."

VARIABLES
  msgs,         \* the messages table, in insertion order; a row's id is its index
  updateCalls,  \* per row: the update calls that named it (at most MaxCalls counted)
  user,         \* useAuth().user: the viewer's id, or NoUser
  locationState,\* location.state.activeChatId, or None
  mounted,      \* the chat page's effect has run (subscriptions are open)
  unmounted,    \* the chat page has been unmounted (its state is no longer shown)
  channels,     \* the realtime client: open handles per channel name
  toasts,       \* the error toasts raised so far (their descriptions)
  messageFilter,\* the chat_id the messages subscription is filtered to, or None
  chats,        \* Chat state: the conversation list
  messages,     \* Chat state: the feed
  activeChat,   \* Chat state: the active conversation, or None
  isLoading,    \* Chat state
  chatFetches,  \* fetchChats calls awaiting their query
  msgFetches,   \* fetchMessages calls awaiting their query, per conversation
  insertEvents, \* INSERT notifications whose handler has not appended yet
  otherEvents,  \* UPDATE notifications not yet handled
  markTimer,    \* ChatBox: ms until the marker's timeout fires, or NoTimer
  newMessage,   \* ChatBox state: the text box
  filePreview,  \* ChatBox state: the staged attachment, or None
  sinceChange,  \* DebounceSpec: ms since the marker effect last ran
  burst,        \* DebounceSpec: runs of the marker effect since its timeout last fired
  coalesced,    \* DebounceSpec: the effect runs the last fired timeout stood for
  clicks,       \* SwitchSpec: conversations the viewer has clicked so far
  tasksTable,   \* the tasks table: the rows the user created, in insertion order
  tasks,        \* Task state: the user's created tasks, newest first
  creating,     \* handleCreateTask calls awaiting their insert: the `tasks` each closed over
  applications, \* the task_applications table: the user's rows per task
  checking,     \* handleApplyForTask calls awaiting their check query, per task
  inserting,    \* handleApplyForTask calls awaiting their insert, per task
  taskToasts,   \* the toasts the Task page has raised (their titles)
  email,        \* ForgotPassword state
  otp,          \* ForgotPassword state
  password,     \* ForgotPassword state
  confirmPassword, \* ForgotPassword state
  step,         \* ForgotPassword state: 'email', 'otp' or 'newPassword'
  path,         \* the route shown while or after the wizard runs
  wizardToasts  \* the toasts the ForgotPassword page has raised (their titles)

vars == << msgs, updateCalls, user, locationState, mounted, unmounted,
           channels, toasts, messageFilter,
           chats, messages, activeChat, isLoading, chatFetches, msgFetches,
           insertEvents, otherEvents, markTimer, newMessage, filePreview,
           sinceChange, burst, coalesced, clicks,
           tasksTable, tasks, creating, applications, checking, inserting,
           taskToasts, email, otp, password, confirmPassword, step, path,
           wizardToasts >>

\* What a specification records about the behaviour; no action of the
\* program reads it.
observed == << sinceChange, burst, coalesced, clicks >>

\* The state of the Task page (with its tables) and of the ForgotPassword
\* page; the chat page and ChatBox read and write none of it.
taskVars == << tasksTable, tasks, creating, applications, checking, inserting,
               taskToasts >>

wizardVars == << email, otp, password, confirmPassword, step, path,
                wizardToasts >>

elsewhere == << taskVars, wizardVars >>

\* ------------------------------------------------------------- the store
\* ids of the rows of `store` that belong to conversation c
RowsOfChat(store, c) == { i \in 1..Len(store) : store[i].chat_id = c }

\* The orders `.order('timestamp', { ascending: true })` may return the rows
\* `ids` in: every arrangement with non-decreasing timestamps (rows of equal
\* timestamp come in an order the store chooses).
AscendingOrders(store, ids) ==
  { s \in [1..Cardinality(ids) -> ids] :
      /\ \A i, j \in DOMAIN s : i # j => s[i] # s[j]
      /\ \A i, j \in DOMAIN s : i < j => store[s[i]].timestamp <= store[s[j]].timestamp }

\* The orders a select without ORDER BY may return the rows `ids` in.
AnyOrders(ids) ==
  { s \in [1..Cardinality(ids) -> ids] :
      \A i, j \in DOMAIN s : i # j => s[i] # s[j] }

\* Variants of UpdateRead: an update that the store drops, and one that
\* inverts the flag instead of setting it.
LostUpdate(store, ids) == store

ToggleRead(store, ids) ==
  [ i \in DOMAIN store |->
      IF i \in ids THEN [store[i] EXCEPT !.read = ~@] ELSE store[i] ]

\* `.update({ read: true }).in('id', ids)` (also `.eq('id', id)`)
UpdateRead(store, ids) ==
  [ i \in DOMAIN store |->
      IF i \in ids THEN [store[i] EXCEPT !.read = TRUE] ELSE store[i] ]

\* The store's record of one update call naming the rows `ids`.
CountCall(calls, ids) ==
  [ i \in DOMAIN calls |->
      IF i \in ids /\ calls[i] < MaxCalls THEN calls[i] + 1 ELSE calls[i] ]

\* The messages subscription delivers the events of row `row`: it is open,
\* and its filter `chat_id=eq.<id>`, if it has one, matches.
Delivered(row) ==
  mounted /\ (messageFilter = None \/ messageFilter = row.chat_id)

\* One awaited update call: the rows are marked, and the page is sent one
\* UPDATE notification per row its subscription delivers.
Update(ids) ==
  /\ msgs' = UpdateRead(msgs, ids)
  /\ updateCalls' = CountCall(updateCalls, ids)
  /\ otherEvents' =
       otherEvents + Cardinality({ i \in ids : Delivered(msgs[i]) })

\* The timestamp the store gives a new row: its clock never runs backwards,
\* and two inserts may fall into the same millisecond.
NextTimestamps ==
  IF msgs = << >> THEN {1}
  ELSE { msgs[Len(msgs)].timestamp, msgs[Len(msgs)].timestamp + 1 }

\* `.insert(newMessage)`: the store assigns id and timestamp, and the page is
\* sent an INSERT notification if its subscription delivers the row.
InsertMessage(row, ts) ==
  /\ updateCalls' = Append(updateCalls, 0)
  /\ msgs' = Append(msgs, [ id |-> Len(msgs) + 1,
                            chat_id |-> row.chat_id,
                            sender_id |-> row.sender_id,
                            receiver_id |-> row.receiver_id,
                            content |-> row.content,
                            timestamp |-> ts,
                            read |-> row.read ])
  /\ insertEvents' = IF Delivered(row) THEN insertEvents \cup {Len(msgs) + 1}
                     ELSE insertEvents

\* ------------------------------------------------------------ fetchChats
\* Variant of ParticipantId: always the second participant.
SecondParticipant(chat, u) == chat.user2_id

\* `isUser1 ? chat.user2_id : chat.user1_id`
ParticipantId(chat, u) ==
  IF chat.user1_id = u THEN chat.user2_id ELSE chat.user1_id

\* `.or(user1_id.eq.U,user2_id.eq.U)`
ChatsOfUser(u) == { c \in ChatsTable : c.user1_id = u \/ c.user2_id = u }

\* `.order('created_at', { ascending: false })`
OrderedChats(u) ==
  CHOOSE s \in [1..Cardinality(ChatsOfUser(u)) -> ChatsOfUser(u)] :
    \A i, j \in DOMAIN s : i < j => s[i].created_at > s[j].created_at

\* One row of the embedded select `messages:messages(content, timestamp, read)`:
\* the columns it names; any other property of the row reads as undefined.
JoinedMessage(row) ==
  [ content |-> row.content, timestamp |-> row.timestamp, read |-> row.read,
    receiver_id |-> Undefined ]

\* `messages.filter(msg => !msg.read && msg.receiver_id === user.id).length`
UnreadCount(store, c, u) ==
  Cardinality({ i \in RowsOfChat(store, c) :
                  ~JoinedMessage(store[i]).read
                  /\ JoinedMessage(store[i]).receiver_id = u })

\* `messages[0]` of a conversation's embedded messages array (0: the array
\* is empty), when the store returns the embedded rows in the order `order`.
\* The embedded select carries no ORDER BY.
FirstMessage(store, c, order) ==
  IF RowsOfChat(store, c) = {} THEN 0
  ELSE order[CHOOSE i \in DOMAIN order :
               /\ order[i] \in RowsOfChat(store, c)
               /\ \A j \in 1..(i - 1) : order[j] \notin RowsOfChat(store, c)]

\* One entry of processedChats; `first` is its `messages[0]`.
ProcessChat(store, chat, u, first) ==
  [ id |-> chat.id,
    participantId |-> ParticipantId(chat, u),
    participantName |-> DisplayName(ParticipantId(chat, u)),
    lastMessage |-> IF first = 0 THEN Undefined
                    ELSE JoinedMessage(store[first]).content,
    lastMessageTime |-> IF first = 0 THEN Undefined
                        ELSE JoinedMessage(store[first]).timestamp,
    unreadCount |-> UnreadCount(store, chat.id, u) ]

\* processedChats
ProcessedChats(store, u, order) ==
  [ i \in 1..Cardinality(ChatsOfUser(u)) |->
      ProcessChat(store, OrderedChats(u)[i], u,
                  FirstMessage(store, OrderedChats(u)[i].id, order)) ]

\* The part of a ChatType the page reads through activeChat.
AsActive(chat) ==
  [ id |-> chat.id, participantId |-> chat.participantId,
    participantName |-> chat.participantName ]

\* `useState<ChatType | null>(null)`: no active conversation.
NoChat == [ id |-> None, participantId |-> None, participantName |-> None ]

\* ------------------------------------------------------ realtime channels
\* `supabase.channel('public:chats')`, `supabase.channel('public:messages')`
\* and ChatBox's `supabase.channel(`messages:${chat.id}`)`
ChatsChannel == << "public", "chats" >>

MessagesChannel == << "public", "messages" >>

BoxChannel(c) == << "messages", c >>

ChannelNames ==
  { ChatsChannel, MessagesChannel } \cup { BoxChannel(c) : c \in ChatIds }

\* `supabase.channel(name).on(...).subscribe()`
Subscribe(chs, name) ==
  [chs EXCEPT ![name] = IF @ < MaxOpen THEN @ + 1 ELSE @]

\* Variant of RemoveChannel: the handle is not released.
KeepChannel(chs, name) == chs

\* `supabase.removeChannel(channel)`
RemoveChannel(chs, name) ==
  [chs EXCEPT ![name] = IF @ > 0 THEN @ - 1 ELSE @]

\* ChatBox's subscription effect (dependencies [chat.id]) when the page is
\* rendered with active conversation `new` after `old`: the cleanup of the
\* run for `old`, then the run for `new`.  NoChat: no ChatBox is rendered.
BoxResubscribed(chs, old, new) ==
  IF unmounted \/ old.id = new.id THEN chs
  ELSE IF old = NoChat THEN Subscribe(chs, BoxChannel(new.id))
  ELSE IF new = NoChat THEN RemoveChannel(chs, BoxChannel(old.id))
  ELSE Subscribe(RemoveChannel(chs, BoxChannel(old.id)), BoxChannel(new.id))

\* fetchMessages up to its first await: `if (!user) return`, then the query.
FetchMessagesCall(c, pending) ==
  IF user = NoUser THEN pending ELSE [pending EXCEPT ![c] = @ + 1]

\* Variant of Restarted: a timeout that is pending is left to run on.
KeepPending(active, feedSet, oldTimer) ==
  IF active = NoChat THEN NoTimer
  ELSE IF oldTimer # NoTimer THEN oldTimer
  ELSE DebounceMs

\* The ChatBox marker effect runs again (and restarts its timeout) when the
\* feed, the user or chat.id changed while a ChatBox is rendered (none is
\* once the page is unmounted).
Restarted(active, feedSet, oldTimer) ==
  IF unmounted \/ active = NoChat THEN NoTimer
  ELSE IF activeChat = NoChat \/ feedSet THEN DebounceMs
  ELSE IF active.id # activeChat.id THEN DebounceMs
  ELSE oldTimer

\* Variant of FetchChatsCall: the early return leaves isLoading as it is.
EarlyReturnKeepsLoading ==
  IF user = NoUser
  THEN UNCHANGED << isLoading, chatFetches >>
  ELSE /\ chatFetches < MaxInflight
       /\ isLoading' = TRUE
       /\ chatFetches' = chatFetches + 1

\* fetchChats up to its first await (without a user: its early return,
\* through `finally { setIsLoading(false) }`).
FetchChatsCall ==
  IF user = NoUser
  THEN /\ isLoading' = FALSE
       /\ UNCHANGED chatFetches
  ELSE /\ chatFetches < MaxInflight
       /\ isLoading' = TRUE
       /\ chatFetches' = chatFetches + 1

\* Variant of ActivationTarget: location.state is not looked at.
FirstOfList(list) ==
  IF Len(list) > 0 THEN AsActive(list[1]) ELSE NoChat

\* The conversation fetchChats activates once the list is there (NoChat: it
\* activates none): the one location.state names, if it names one, else the
\* first of the list.
ActivationTarget(list) ==
  IF locationState # None
  THEN IF \E i \in DOMAIN list : list[i].id = locationState
       THEN AsActive(list[CHOOSE i \in DOMAIN list : list[i].id = locationState])
       ELSE NoChat
  ELSE IF Len(list) > 0 THEN AsActive(list[1]) ELSE NoChat

\* fetchChats from the query's answer to the end.
FetchChatsResolve ==
  /\ chatFetches > 0
  /\ \E order \in AnyOrders(DOMAIN msgs) :
       chats' = ProcessedChats(msgs, user, order)
  /\ IF ActivationTarget(chats') = NoChat
     THEN UNCHANGED << activeChat, msgFetches, markTimer, channels >>
     ELSE /\ msgFetches[ActivationTarget(chats').id] < MaxInflight
          /\ activeChat' = ActivationTarget(chats')
          /\ channels' = BoxResubscribed(channels, activeChat, activeChat')
          /\ msgFetches' = FetchMessagesCall(activeChat'.id, msgFetches)
          /\ markTimer' = Restarted(activeChat', FALSE, markTimer)
  /\ chatFetches' = chatFetches - 1
  /\ isLoading' = FALSE
  /\ UNCHANGED << msgs, updateCalls, user, locationState, toasts, unmounted, mounted,
                  messageFilter, messages, insertEvents, otherEvents,
                  newMessage, filePreview >>

\* Variant of FetchChatsFail: the failure empties the list.
FetchChatsFailClears ==
  /\ chatFetches > 0
  /\ chatFetches' = chatFetches - 1
  /\ toasts' = toasts \cup {ChatsToast}
  /\ isLoading' = FALSE
  /\ chats' = << >>
  /\ UNCHANGED << msgs, updateCalls, user, locationState, unmounted, channels,
                  mounted, messageFilter, messages, activeChat,
                  msgFetches, insertEvents, otherEvents, markTimer,
                  newMessage, filePreview >>

\* fetchChats when its query fails: `throw chatsError`, the catch's toast,
\* `finally { setIsLoading(false) }`.
FetchChatsFail ==
  /\ chatFetches > 0
  /\ chatFetches' = chatFetches - 1
  /\ toasts' = toasts \cup {ChatsToast}
  /\ isLoading' = FALSE
  /\ UNCHANGED << msgs, updateCalls, user, locationState, unmounted, channels,
                  mounted, messageFilter, chats, messages, activeChat,
                  msgFetches, insertEvents, otherEvents, markTimer,
                  newMessage, filePreview >>

\* The page's effect: fetchChats() and the two subscriptions.  Its
\* dependencies are [user, toast, location], which do not change while the
\* page is shown, so it runs once; the messages subscription's filter is
\* `activeChat ? chat_id=eq.<activeChat.id> : undefined` as of that run.
Mount ==
  /\ ~mounted
  /\ mounted' = TRUE
  /\ messageFilter' = IF activeChat = NoChat THEN None ELSE activeChat.id
  /\ channels' = Subscribe(Subscribe(channels, ChatsChannel), MessagesChannel)
  /\ FetchChatsCall
  /\ UNCHANGED << msgs, updateCalls, user, locationState, toasts, unmounted, chats, messages,
                  activeChat, msgFetches, insertEvents, otherEvents, markTimer,
                  newMessage, filePreview >>

\* The page is unmounted: ChatBox's cleanups (its timeout is cleared, its
\* channel removed), then the cleanup of the page's effect (both channels
\* removed).  Notifications not yet delivered are dropped with the channel;
\* calls in flight run on.
Unmount ==
  /\ mounted
  /\ mounted' = FALSE
  /\ unmounted' = TRUE
  /\ markTimer' = NoTimer
  /\ otherEvents' = 0
  /\ channels' =
       RemoveChannel(
         RemoveChannel(BoxResubscribed(channels, activeChat, NoChat), ChatsChannel),
         MessagesChannel)
  /\ UNCHANGED << msgs, updateCalls, user, locationState, toasts, messageFilter, chats,
                  messages, activeChat, isLoading, chatFetches, msgFetches,
                  insertEvents, newMessage, filePreview >>

\* --------------------------------------------------------- fetchMessages
\* One entry of formattedMessages.
FormatMessage(row) ==
  [ id |-> row.id, senderId |-> row.sender_id,
    senderName |-> DisplayName(row.sender_id),
    receiverId |-> row.receiver_id, content |-> row.content,
    timestamp |-> row.timestamp, read |-> row.read ]

\* `messagesData.filter(msg => !msg.read && msg.sender_id !== user.id)`
UnreadOfFetch(store, c, u) ==
  { i \in RowsOfChat(store, c) : ~store[i].read /\ store[i].sender_id # u }

\* fetchMessages from the query's answer to the end.
FetchMessagesResolve(c) ==
  /\ msgFetches[c] > 0
  /\ \E order \in AscendingOrders(msgs, RowsOfChat(msgs, c)) :
       messages' = [ i \in DOMAIN order |-> FormatMessage(msgs[order[i]]) ]
  /\ IF UnreadOfFetch(msgs, c, user) # {}
     THEN Update(UnreadOfFetch(msgs, c, user))
     ELSE UNCHANGED << msgs, updateCalls, otherEvents >>
  /\ msgFetches' = [msgFetches EXCEPT ![c] = @ - 1]
  /\ markTimer' = Restarted(activeChat, TRUE, markTimer)
  /\ UNCHANGED << user, locationState, toasts, unmounted, channels, mounted, messageFilter, chats, activeChat, isLoading,
                  chatFetches, insertEvents, newMessage, filePreview >>

\* fetchMessages when its query fails: `throw error`, the catch's toast.
FetchMessagesFail(c) ==
  /\ msgFetches[c] > 0
  /\ msgFetches' = [msgFetches EXCEPT ![c] = @ - 1]
  /\ toasts' = toasts \cup {MessagesToast}
  /\ UNCHANGED << msgs, updateCalls, user, locationState, unmounted, channels,
                  mounted, messageFilter, chats, messages, activeChat,
                  isLoading, chatFetches, insertEvents, otherEvents, markTimer,
                  newMessage, filePreview >>

\* A click on an entry of the rendered list (ChatList renders it unless
\* isLoading).
handleChatSelect(i) ==
  /\ mounted /\ ~isLoading
  /\ i \in DOMAIN chats
  /\ msgFetches[chats[i].id] < MaxInflight
  /\ activeChat' = AsActive(chats[i])
  /\ msgFetches' = FetchMessagesCall(chats[i].id, msgFetches)
  /\ markTimer' = Restarted(AsActive(chats[i]), FALSE, markTimer)
  /\ channels' = BoxResubscribed(channels, activeChat, AsActive(chats[i]))
  /\ UNCHANGED << msgs, updateCalls, user, locationState, toasts, unmounted, mounted, messageFilter, chats, messages,
                  isLoading, chatFetches, insertEvents, otherEvents,
                  newMessage, filePreview >>

\* ------------------------------------------------- the realtime handlers
\* The messages handler for an INSERT event, from the answer of its profile
\* lookup on: append the payload to the feed, mark it read if it is addressed
\* to the user, then fetchChats().  payload.new is the row as inserted.
MessageInserted(id) ==
  /\ id \in insertEvents
  /\ insertEvents' = insertEvents \ {id}
  /\ messages' = Append(messages, FormatMessage([msgs[id] EXCEPT !.read = FALSE]))
  /\ IF msgs[id].receiver_id = user
     THEN Update({id})
     ELSE UNCHANGED << msgs, updateCalls, otherEvents >>
  /\ FetchChatsCall
  /\ markTimer' = Restarted(activeChat, TRUE, markTimer)
  /\ UNCHANGED << user, locationState, toasts, unmounted, channels, mounted, messageFilter, chats, activeChat, msgFetches,
                  newMessage, filePreview >>

\* Variant of MessageInsertedUpdateFails: the failed update is thrown, so
\* that the handler's catch raises its toast and fetchChats() is skipped.
HandlerAborts(id) ==
  /\ id \in insertEvents
  /\ msgs[id].receiver_id = user /\ ~msgs[id].read
  /\ insertEvents' = insertEvents \ {id}
  /\ messages' = Append(messages, FormatMessage([msgs[id] EXCEPT !.read = FALSE]))
  /\ toasts' = toasts \cup {HandlerToast}
  /\ markTimer' = Restarted(activeChat, TRUE, markTimer)
  /\ UNCHANGED << msgs, updateCalls, otherEvents, user, locationState,
                  unmounted, channels, mounted, messageFilter, chats,
                  activeChat, isLoading, chatFetches, msgFetches, newMessage,
                  filePreview >>

\* The messages handler for an INSERT event addressed to the user when the
\* update that marks the message read fails: the awaited call resolves to
\* an { error } that the handler does not look at.
MessageInsertedUpdateFails(id) ==
  /\ id \in insertEvents
  /\ msgs[id].receiver_id = user /\ ~msgs[id].read
  /\ insertEvents' = insertEvents \ {id}
  /\ messages' = Append(messages, FormatMessage([msgs[id] EXCEPT !.read = FALSE]))
  /\ FetchChatsCall
  /\ markTimer' = Restarted(activeChat, TRUE, markTimer)
  /\ UNCHANGED << msgs, updateCalls, otherEvents, user, locationState, toasts,
                  unmounted, channels, mounted, messageFilter, chats,
                  activeChat, msgFetches, newMessage, filePreview >>

\* The messages handler for any other event: fetchChats().
MessageChanged ==
  /\ otherEvents > 0
  /\ otherEvents' = otherEvents - 1
  /\ FetchChatsCall
  /\ UNCHANGED << msgs, updateCalls, user, locationState, toasts, unmounted, channels, mounted, messageFilter, chats, messages,
                  activeChat, msgFetches, insertEvents, markTimer,
                  newMessage, filePreview >>

\* The chats handlers (either filter): fetchChats().
ChatChanged ==
  /\ mounted
  /\ FetchChatsCall
  /\ UNCHANGED << msgs, updateCalls, user, locationState, toasts, unmounted, channels, mounted, messageFilter, chats, messages,
                  activeChat, msgFetches, insertEvents, otherEvents,
                  markTimer, newMessage, filePreview >>

\* --------------------------------------------------------------- ChatBox
\* Variant of UnreadOfFeed: the unread messages the store holds for the
\* active conversation.
UnreadOfStore(feed, u) == UnreadOfFetch(msgs, activeChat.id, u)

\* `messages.filter(msg => !msg.read && msg.senderId !== user.id)` under
\* `user && messages.length > 0 && chat.id`
UnreadOfFeed(feed, u) ==
  IF u = NoUser \/ feed = << >> THEN {}
  ELSE { feed[i].id : i \in { j \in DOMAIN feed :
                                ~feed[j].read /\ feed[j].senderId # u } }

\* The marker's timeout fires: markMessagesAsRead.
markMessagesAsRead ==
  /\ markTimer # NoTimer
  /\ markTimer' = NoTimer
  /\ IF UnreadOfFeed(messages, user) # {}
     THEN Update(UnreadOfFeed(messages, user))
     ELSE UNCHANGED << msgs, updateCalls, otherEvents >>
  /\ UNCHANGED << user, locationState, toasts, unmounted, channels, mounted, messageFilter, chats, messages, activeChat,
                  isLoading, chatFetches, msgFetches, insertEvents,
                  newMessage, filePreview >>

\* onChange of the text box.
SetNewMessage(t) ==
  /\ activeChat # NoChat
  /\ newMessage' = t
  /\ UNCHANGED << msgs, updateCalls, user, locationState, toasts, unmounted, channels, mounted, messageFilter, chats, messages,
                  activeChat, isLoading, chatFetches, msgFetches,
                  insertEvents, otherEvents, markTimer, filePreview >>

handleFileChange ==
  /\ activeChat # NoChat
  /\ filePreview' = "file"
  /\ UNCHANGED << msgs, updateCalls, user, locationState, toasts, unmounted, channels, mounted, messageFilter, chats, messages,
                  activeChat, isLoading, chatFetches, msgFetches,
                  insertEvents, otherEvents, markTimer, newMessage >>

handleRemoveFile ==
  /\ activeChat # NoChat
  /\ filePreview' = None
  /\ UNCHANGED << msgs, updateCalls, user, locationState, toasts, unmounted, channels, mounted, messageFilter, chats, messages,
                  activeChat, isLoading, chatFetches, msgFetches,
                  insertEvents, otherEvents, markTimer, newMessage >>

\* Variant of SubmitAccepted: the text is not trimmed.
AcceptsUntrimmed(text, file) == text # "" \/ file # None

\* `newMessage.trim() || filePreview`
SubmitAccepted(text, file) == Trim(text) # "" \/ file # None

\* Variant of handleSendMessage: the message is also put into the feed.
SendOptimistic(content) ==
  IF user = NoUser \/ activeChat = NoChat
  THEN UNCHANGED << msgs, updateCalls, insertEvents, messages >>
  ELSE /\ \E ts \in NextTimestamps :
            InsertMessage([ chat_id |-> activeChat.id, sender_id |-> user,
                            receiver_id |-> activeChat.participantId,
                            content |-> content, read |-> FALSE ], ts)
       /\ messages' = Append(messages, FormatMessage(msgs'[Len(msgs')]))

\* Variant of handleSendMessage: the message is addressed to its sender.
SendToSelf(content) ==
  IF user = NoUser \/ activeChat = NoChat
  THEN UNCHANGED << msgs, updateCalls, insertEvents, messages >>
  ELSE /\ \E ts \in NextTimestamps :
            InsertMessage([ chat_id |-> activeChat.id, sender_id |-> user,
                            receiver_id |-> user,
                            content |-> content, read |-> FALSE ], ts)
       /\ UNCHANGED messages

\* Chat.handleSendMessage(content, attachment): the row it inserts; it
\* does not set the feed.
handleSendMessage(content) ==
  IF user = NoUser \/ activeChat = NoChat
  THEN UNCHANGED << msgs, updateCalls, insertEvents, messages >>
  ELSE /\ \E ts \in NextTimestamps :
            InsertMessage([ chat_id |-> activeChat.id, sender_id |-> user,
                            receiver_id |-> activeChat.participantId,
                            content |-> content, read |-> FALSE ], ts)
       /\ UNCHANGED messages

\* ChatBox.handleSendMessage: the form's submit.
ChatBoxSubmit ==
  /\ activeChat # NoChat
  /\ IF SubmitAccepted(newMessage, filePreview)
     THEN /\ handleSendMessage(newMessage)
          /\ newMessage' = ""
          /\ filePreview' = None
     ELSE UNCHANGED << msgs, updateCalls, insertEvents, messages, newMessage,
                       filePreview >>
  /\ UNCHANGED << user, locationState, toasts, unmounted, channels, mounted, messageFilter, chats, activeChat,
                  isLoading, chatFetches, msgFetches, otherEvents, markTimer >>

\* Variant of ChatBoxSubmitRejected: the text and the attachment are kept
\* when the insert fails.
SubmitRejectedKeepsDraft ==
  /\ activeChat # NoChat /\ user # NoUser
  /\ SubmitAccepted(newMessage, filePreview)
  /\ toasts' = toasts \cup {SendToast}
  /\ UNCHANGED << msgs, updateCalls, insertEvents, messages, user,
                  locationState, unmounted, channels, mounted, messageFilter,
                  chats, activeChat, isLoading, chatFetches, msgFetches,
                  otherEvents, markTimer, newMessage, filePreview >>

\* ChatBox.handleSendMessage when the store rejects the insert:
\* handleSendMessage's catch raises its toast; ChatBox, which does not await
\* onSendMessage, has cleared the text and the attachment.
ChatBoxSubmitRejected ==
  /\ activeChat # NoChat /\ user # NoUser
  /\ SubmitAccepted(newMessage, filePreview)
  /\ toasts' = toasts \cup {SendToast}
  /\ newMessage' = ""
  /\ filePreview' = None
  /\ UNCHANGED << msgs, updateCalls, insertEvents, messages, user,
                  locationState, unmounted, channels, mounted, messageFilter,
                  chats, activeChat, isLoading, chatFetches, msgFetches,
                  otherEvents, markTimer >>

\* ----------------------------------------------------- the other clients
\* The other participant of one of the viewer's conversations sends a
\* message (the same composer, run by that participant).
PeerSend(c) ==
  /\ c \in ChatsOfUser(Viewer)
  /\ \E ts \in NextTimestamps :
       InsertMessage([ chat_id |-> c.id, sender_id |-> ParticipantId(c, Viewer),
                       receiver_id |-> Viewer, content |-> PeerText,
                       read |-> FALSE ], ts)
  /\ UNCHANGED << user, locationState, toasts, unmounted, channels, mounted, messageFilter, chats, messages, activeChat,
                  isLoading, chatFetches, msgFetches, otherEvents, markTimer,
                  newMessage, filePreview >>

\* A participant of a conversation the viewer takes no part in sends its
\* other participant a message (the same composer, run by that participant).
OthersSend(c) ==
  /\ c \in ChatsTable \ ChatsOfUser(Viewer)
  /\ \E ts \in NextTimestamps :
       InsertMessage([ chat_id |-> c.id, sender_id |-> c.user1_id,
                       receiver_id |-> c.user2_id, content |-> PeerText,
                       read |-> FALSE ], ts)
  /\ UNCHANGED << user, locationState, toasts, unmounted, channels, mounted,
                  messageFilter, chats, messages, activeChat, isLoading,
                  chatFetches, msgFetches, otherEvents, markTimer,
                  newMessage, filePreview >>

\* ------------------------------------------------------------ the Task page

\* `tasks.filter(t => t.status === 'active').length`
ActiveTasks(list) ==
  Cardinality({ i \in DOMAIN list : list[i].status = "active" })

\* the row the insert of handleCreateTask adds to the tasks table: the
\* table's default status with `creator_id: user?.id`
InsertedTask(table, creator) ==
  [ id |-> Len(table) + 1, status |-> "active", creator_id |-> creator ]

\* `newTask`, the entry handleCreateTask builds from the inserted row
NewTask(row) == [ id |-> row.id, status |-> "active" ]

\* a sequence without its k-th element
Without(seq, k) == SubSeq(seq, 1, k - 1) \o SubSeq(seq, k + 1, Len(seq))

\* handleCreateTask up to its awaited insert.  The count is taken over the
\* `tasks` of the render the handler was created in; the call keeps that
\* list while the insert is under way.
handleCreateTask ==
  IF ActiveTasks(tasks) >= TaskLimit
    THEN /\ taskToasts' = taskToasts \cup {"Limit Reached"}
         /\ UNCHANGED << tasksTable, tasks, creating, applications, checking,
                         inserting >>
    ELSE /\ Len(creating) < MaxCreates
         /\ Len(tasksTable) + Len(creating) < MaxTasks
         /\ creating' = Append(creating, tasks)
         /\ UNCHANGED << tasksTable, tasks, applications, checking, inserting,
                         taskToasts >>

\* The insert of the k-th call under way has succeeded:
\* `setTasks([newTask, ...tasks])` with the list the call closed over.
CreateTaskResolve(k) ==
  /\ k \in DOMAIN creating
  /\ LET row == InsertedTask(tasksTable, user)
     IN  /\ tasksTable' = Append(tasksTable, row)
         /\ tasks' = << NewTask(row) >> \o creating[k]
  /\ creating' = Without(creating, k)
  /\ taskToasts' = taskToasts \cup {"Task Created"}
  /\ UNCHANGED << applications, checking, inserting >>

\* The insert of the k-th call under way has failed: `throw error`, and the
\* catch block's toast.
CreateTaskFail(k) ==
  /\ k \in DOMAIN creating
  /\ creating' = Without(creating, k)
  /\ taskToasts' = taskToasts \cup {"Error"}
  /\ UNCHANGED << tasksTable, tasks, applications, checking, inserting >>

\* handleApplyForTask up to its awaited query for existing applications.
handleApplyForTask(t) ==
  IF user = NoUser
    THEN /\ taskToasts' = taskToasts \cup {"Authentication Required"}
         /\ UNCHANGED << tasksTable, tasks, creating, applications, checking,
                         inserting >>
    ELSE /\ checking[t] + inserting[t] < MaxApplies
         /\ applications[t] + checking[t] + inserting[t] < MaxApplications
         /\ checking' = [checking EXCEPT ![t] = @ + 1]
         /\ UNCHANGED << tasksTable, tasks, creating, applications, inserting,
                         taskToasts >>

\* The query of a call for task t is answered with the rows the table holds
\* for (t, user) at that time: "Already Applied" when there is one, the
\* awaited insert otherwise.
ApplyCheckResolve(t) ==
  /\ checking[t] > 0
  /\ checking' = [checking EXCEPT ![t] = @ - 1]
  /\ IF applications[t] > 0
       THEN /\ taskToasts' = taskToasts \cup {"Already Applied"}
            /\ UNCHANGED inserting
       ELSE /\ inserting' = [inserting EXCEPT ![t] = @ + 1]
            /\ UNCHANGED taskToasts
  /\ UNCHANGED << tasksTable, tasks, creating, applications >>

\* The insert of a call for task t has succeeded.
ApplyInsertResolve(t) ==
  /\ inserting[t] > 0
  /\ inserting' = [inserting EXCEPT ![t] = @ - 1]
  /\ applications' = [applications EXCEPT ![t] = @ + 1]
  /\ taskToasts' = taskToasts \cup {"Application Submitted"}
  /\ UNCHANGED << tasksTable, tasks, creating, checking >>

\* The query or the insert of a call for task t has failed: `throw`, and the
\* catch block's toast.
ApplyFail(t) ==
  /\ \/ /\ checking[t] > 0
        /\ checking' = [checking EXCEPT ![t] = @ - 1]
        /\ UNCHANGED inserting
     \/ /\ inserting[t] > 0
        /\ inserting' = [inserting EXCEPT ![t] = @ - 1]
        /\ UNCHANGED checking
  /\ taskToasts' = taskToasts \cup {"Error"}
  /\ UNCHANGED << tasksTable, tasks, creating, applications >>

\* ------------------------------------------------- the ForgotPassword page

\* a string of n characters ch
Fill(ch, n) == [ i \in 1..n |-> ch ]

\* `s.includes(ch)`
Includes(s, ch) == \E i \in DOMAIN s : s[i] = ch

\* what the user may type into the email field
Emails == { << >>, << "a" >>, << "a", "@", "b" >> }

\* what the InputOTP hands to handleOTPChange: at most `maxLength` characters
Codes == { Fill("1", n) : n \in 0..OtpLength }

\* what the user may type into a password field: nothing, and passwords
\* around the required length
Passwords ==
  { << >>, Fill("y", MinPassword) }
    \cup { Fill("x", n) : n \in (MinPassword - 1)..MaxPassword }

\* the page is shown, with the form of step s
Shown(s) == path = "/forgot-password" /\ step = s

\* `onChange={(e) => setEmail(e.target.value)}`
setEmail(v) ==
  /\ Shown("email")
  /\ email' = v
  /\ UNCHANGED << otp, password, confirmPassword, step, path, wizardToasts >>

handleOTPChange(v) ==
  /\ Shown("otp")
  /\ otp' = v
  /\ UNCHANGED << email, password, confirmPassword, step, path, wizardToasts >>

\* `onChange={(e) => setPassword(e.target.value)}`
setPassword(v) ==
  /\ Shown("newPassword")
  /\ password' = v
  /\ UNCHANGED << email, otp, confirmPassword, step, path, wizardToasts >>

\* `onChange={(e) => setConfirmPassword(e.target.value)}`
setConfirmPassword(v) ==
  /\ Shown("newPassword")
  /\ confirmPassword' = v
  /\ UNCHANGED << email, otp, password, step, path, wizardToasts >>

\* `!email || !email.includes('@')`
InvalidEmail(e) == e = << >> \/ ~Includes(e, "@")

handleSendResetLink ==
  /\ Shown("email")
  /\ IF InvalidEmail(email)
       THEN /\ wizardToasts' = wizardToasts \cup {"Invalid email"}
            /\ UNCHANGED step
       ELSE /\ wizardToasts' = wizardToasts \cup {"Reset Code Sent!"}
            /\ step' = "otp"
  /\ UNCHANGED << email, otp, password, confirmPassword, path >>

AnyCode(o) == TRUE

\* `otp.length === 6`
CodeComplete(o) == Len(o) = OtpLength

handleVerifyOTP ==
  /\ Shown("otp")
  /\ IF CodeComplete(otp)
       THEN /\ wizardToasts' = wizardToasts \cup {"Code Verified!"}
            /\ step' = "newPassword"
       ELSE /\ wizardToasts' = wizardToasts \cup {"Invalid Code"}
            /\ UNCHANGED step
  /\ UNCHANGED << email, otp, password, confirmPassword, path >>

\* the "Back to Email" button: `onClick={() => setStep('email')}`
BackToEmail ==
  /\ Shown("otp")
  /\ step' = "email"
  /\ UNCHANGED << email, otp, password, confirmPassword, path, wizardToasts >>

NeverTooShort(p) == FALSE

\* `password.length < 8`
TooShort(p) == Len(p) < MinPassword

handleResetPassword ==
  /\ Shown("newPassword")
  /\ IF password # confirmPassword
       THEN /\ wizardToasts' = wizardToasts \cup {"Passwords don't match"}
            /\ UNCHANGED << email, otp, password, confirmPassword, step, path >>
       ELSE IF TooShort(password)
         THEN /\ wizardToasts' = wizardToasts \cup {"Password too short"}
              /\ UNCHANGED << email, otp, password, confirmPassword, step,
                              path >>
         ELSE /\ wizardToasts' =
                   wizardToasts \cup {"Password Reset Successfully!"}
              /\ email' = << >>
              /\ otp' = << >>
              /\ password' = << >>
              /\ confirmPassword' = << >>
              /\ step' = "email"
              /\ path' = "/login"

\* ------------------------------------------------------ the specifications
\* The page as constructed (useState's initial values), before its effect
\* has run, over an empty messages table.
Init ==
  /\ msgs = << >>
  /\ updateCalls = << >>
  /\ user \in {Viewer, NoUser}
  /\ locationState \in {None, "c2", "c9"}
  /\ mounted = FALSE
  /\ unmounted = FALSE
  /\ toasts = {}
  /\ channels = [n \in ChannelNames |-> 0]
  /\ messageFilter = None
  /\ chats = << >>
  /\ messages = << >>
  /\ activeChat = NoChat
  /\ isLoading = TRUE
  /\ chatFetches = 0
  /\ msgFetches = [c \in ChatIds |-> 0]
  /\ insertEvents = {}
  /\ otherEvents = 0
  /\ markTimer = NoTimer
  /\ newMessage = ""
  /\ filePreview = None
  /\ sinceChange = 0
  /\ burst = 0
  /\ coalesced = 0
  /\ clicks = 0
  /\ tasksTable = << >>
  /\ tasks = << >>
  /\ creating = << >>
  /\ applications = [t \in TaskIds |-> 0]
  /\ checking = [t \in TaskIds |-> 0]
  /\ inserting = [t \in TaskIds |-> 0]
  /\ taskToasts = {}
  /\ email = << >>
  /\ otp = << >>
  /\ password = << >>
  /\ confirmPassword = << >>
  /\ step = "email"
  /\ path = "/forgot-password"
  /\ wizardToasts = {}

\* A signed-in viewer who came to the page without a navigation target.
PlainInit == Init /\ user = Viewer /\ locationState = None

\* Spec: messages arrive while the page is open.  The page's effect, its
\* fetches, the realtime handlers and the marker, with the other
\* participants sending up to MaxMsgs messages.
Next ==
  \/ Mount /\ UNCHANGED << observed, elsewhere >>
  \/ FetchChatsResolve /\ UNCHANGED << observed, elsewhere >>
  \/ \E c \in ChatIds : FetchMessagesResolve(c) /\ UNCHANGED << observed, elsewhere >>
  \/ \E id \in insertEvents : MessageInserted(id) /\ UNCHANGED << observed, elsewhere >>
  \/ MessageChanged /\ UNCHANGED << observed, elsewhere >>
  \/ ChatChanged /\ UNCHANGED << observed, elsewhere >>
  \/ markMessagesAsRead /\ UNCHANGED << observed, elsewhere >>
  \/ \E c \in ChatsTable :
       Len(msgs) < MaxMsgs /\ PeerSend(c) /\ UNCHANGED << observed, elsewhere >>

Spec == Init /\ [][Next]_vars

\* SwitchSpec: rapid conversation switches.  Over the messages that were
\* there when the page was opened (up to MaxHistory of them; none arrives
\* afterwards) the viewer clicks the conversations of SwitchOrder, in that
\* order, at any pace.
SwitchOrder == << "c1", "c2", "c3" >>

SwitchNext ==
  \/ \E c \in ChatsTable :
       ~mounted /\ Len(msgs) < MaxHistory /\ PeerSend(c) /\ UNCHANGED << observed, elsewhere >>
  \/ Mount /\ UNCHANGED << observed, elsewhere >>
  \/ FetchChatsResolve /\ UNCHANGED << observed, elsewhere >>
  \/ \E c \in ChatIds : FetchMessagesResolve(c) /\ UNCHANGED << observed, elsewhere >>
  \/ \E i \in 1..Cardinality(ChatsTable) :
       /\ clicks < Len(SwitchOrder)
       /\ i \in DOMAIN chats
       /\ chats[i].id = SwitchOrder[clicks + 1]
       /\ handleChatSelect(i)
       /\ clicks' = clicks + 1
       /\ UNCHANGED << sinceChange, burst, coalesced, elsewhere >>
  \/ MessageChanged /\ UNCHANGED << observed, elsewhere >>
  \/ markMessagesAsRead /\ UNCHANGED << observed, elsewhere >>

SwitchSpec == Init /\ [][SwitchNext]_vars

\* OpenSpec: conversations with unread messages are opened.  Conversation c1
\* holds up to MaxUnread unread messages of its other participant when the
\* page is opened; the viewer clicks any conversation at any time, and no
\* message arrives afterwards.
OpenNext ==
  \/ ~mounted /\ Len(msgs) < MaxUnread /\ PeerSend(ChatRow("c1"))
       /\ UNCHANGED << observed, elsewhere >>
  \/ Mount /\ UNCHANGED << observed, elsewhere >>
  \/ FetchChatsResolve /\ UNCHANGED << observed, elsewhere >>
  \/ \E c \in ChatIds : FetchMessagesResolve(c) /\ UNCHANGED << observed, elsewhere >>
  \/ \E i \in 1..Cardinality(ChatsTable) : handleChatSelect(i) /\ UNCHANGED << observed, elsewhere >>
  \/ MessageChanged /\ UNCHANGED << observed, elsewhere >>
  \/ markMessagesAsRead /\ UNCHANGED << observed, elsewhere >>

OpenSpec == PlainInit /\ [][OpenNext]_vars

\* The store answers every query of fetchMessages.  Nothing obliges the
\* viewer to click, and nothing is assumed of when the other queries are
\* answered, the notifications are delivered or the marker's timeout fires.
OpenFairness ==
  \A c \in ChatIds : WF_vars(FetchMessagesResolve(c) /\ UNCHANGED << observed, elsewhere >>)

FairOpenSpec == OpenSpec /\ OpenFairness

\* ComposerSpec: both participants write.  The viewer types, stages and
\* removes attachments and submits; the other participants send; up to
\* MaxMsgs messages in all.
ComposerNext ==
  \/ Mount /\ UNCHANGED << observed, elsewhere >>
  \/ FetchChatsResolve /\ UNCHANGED << observed, elsewhere >>
  \/ \E c \in ChatIds : FetchMessagesResolve(c) /\ UNCHANGED << observed, elsewhere >>
  \/ \E id \in insertEvents : MessageInserted(id) /\ UNCHANGED << observed, elsewhere >>
  \/ MessageChanged /\ UNCHANGED << observed, elsewhere >>
  \/ markMessagesAsRead /\ UNCHANGED << observed, elsewhere >>
  \/ \E t \in Texts : SetNewMessage(t) /\ UNCHANGED << observed, elsewhere >>
  \/ handleFileChange /\ UNCHANGED << observed, elsewhere >>
  \/ handleRemoveFile /\ UNCHANGED << observed, elsewhere >>
  \/ Len(msgs) < MaxMsgs /\ ChatBoxSubmit /\ UNCHANGED << observed, elsewhere >>
  \/ \E c \in ChatsTable :
       Len(msgs) < MaxMsgs /\ PeerSend(c) /\ UNCHANGED << observed, elsewhere >>

ComposerSpec == PlainInit /\ [][ComposerNext]_vars

\* DebounceSpec: Spec with the time.  Tick lets up to TickMs ms pass, never
\* past the moment a pending timeout is due; the marker's timeout fires when
\* it is due.  The specification records when the marker effect ran last
\* (it runs when ChatBox is rendered with a new feed array or a new chat.id)
\* and how many of its runs the timeout that fires stands for.
EffectRan(feedSet) ==
  activeChat' # NoChat /\ (feedSet \/ activeChat'.id # activeChat.id)

Observe(feedSet) ==
  /\ IF EffectRan(feedSet)
     THEN /\ sinceChange' = 0
          /\ burst' = IF burst < MaxBurst THEN burst + 1 ELSE burst
     ELSE UNCHANGED << sinceChange, burst >>
  /\ UNCHANGED << coalesced, clicks, elsewhere >>

Tick ==
  /\ markTimer > 0
  /\ markTimer' = IF markTimer > TickMs THEN markTimer - TickMs ELSE 0
  /\ sinceChange' = sinceChange + (IF markTimer > TickMs THEN TickMs ELSE markTimer)
  /\ UNCHANGED << msgs, updateCalls, user, locationState, toasts, unmounted, channels, mounted,
                  messageFilter, chats, messages, activeChat, isLoading,
                  chatFetches, msgFetches, insertEvents, otherEvents,
                  newMessage, filePreview, burst, coalesced, clicks,
                  elsewhere >>

DebounceNext ==
  \/ Mount /\ Observe(FALSE)
  \/ FetchChatsResolve /\ Observe(FALSE)
  \/ \E c \in ChatIds : FetchMessagesResolve(c) /\ Observe(TRUE)
  \/ \E id \in insertEvents : MessageInserted(id) /\ Observe(TRUE)
  \/ MessageChanged /\ Observe(FALSE)
  \/ \E c \in ChatsTable :
       Len(msgs) < MaxMsgs /\ PeerSend(c) /\ Observe(FALSE)
  \/ Tick
  \/ /\ markTimer = 0
     /\ markMessagesAsRead
     /\ coalesced' = burst
     /\ burst' = 0
     /\ UNCHANGED << sinceChange, clicks, elsewhere >>

DebounceSpec == PlainInit /\ [][DebounceNext]_vars

\* BystanderSpec: Spec for a signed-in viewer, with messages also sent in
\* the conversations of other users (up to MaxMsgs messages in all).
BystanderNext ==
  \/ Mount /\ UNCHANGED << observed, elsewhere >>
  \/ FetchChatsResolve /\ UNCHANGED << observed, elsewhere >>
  \/ \E c \in ChatIds : FetchMessagesResolve(c) /\ UNCHANGED << observed, elsewhere >>
  \/ \E id \in insertEvents : MessageInserted(id) /\ UNCHANGED << observed, elsewhere >>
  \/ MessageChanged /\ UNCHANGED << observed, elsewhere >>
  \/ markMessagesAsRead /\ UNCHANGED << observed, elsewhere >>
  \/ \E c \in ChatsTable :
       Len(msgs) < MaxMsgs /\ PeerSend(c) /\ UNCHANGED << observed, elsewhere >>
  \/ \E c \in ChatsTable :
       Len(msgs) < MaxMsgs /\ OthersSend(c) /\ UNCHANGED << observed, elsewhere >>

BystanderSpec == PlainInit /\ [][BystanderNext]_vars

\* FaultSpec: the store may fail.  A viewer, signed in or not, opens the
\* page, clicks, types and submits, and a message may arrive (up to
\* MaxHistory messages in all), while any query, insert or update of the
\* page may fail.
FaultNext ==
  \/ Mount /\ UNCHANGED << observed, elsewhere >>
  \/ FetchChatsResolve /\ UNCHANGED << observed, elsewhere >>
  \/ FetchChatsFail /\ UNCHANGED << observed, elsewhere >>
  \/ \E c \in ChatIds : FetchMessagesResolve(c) /\ UNCHANGED << observed, elsewhere >>
  \/ \E c \in ChatIds : FetchMessagesFail(c) /\ UNCHANGED << observed, elsewhere >>
  \/ \E i \in 1..Cardinality(ChatsTable) : handleChatSelect(i) /\ UNCHANGED << observed, elsewhere >>
  \/ \E id \in insertEvents : MessageInserted(id) /\ UNCHANGED << observed, elsewhere >>
  \/ \E id \in insertEvents : MessageInsertedUpdateFails(id) /\ UNCHANGED << observed, elsewhere >>
  \/ MessageChanged /\ UNCHANGED << observed, elsewhere >>
  \/ \E t \in Texts : SetNewMessage(t) /\ UNCHANGED << observed, elsewhere >>
  \/ handleFileChange /\ UNCHANGED << observed, elsewhere >>
  \/ Len(msgs) < MaxHistory /\ ChatBoxSubmit /\ UNCHANGED << observed, elsewhere >>
  \/ ChatBoxSubmitRejected /\ UNCHANGED << observed, elsewhere >>
  \/ \E c \in ChatsTable :
       Len(msgs) < MaxHistory /\ PeerSend(c) /\ UNCHANGED << observed, elsewhere >>

\* the page is opened from the navigation bar, signed in or not
FaultInit == Init /\ locationState = None

FaultSpec == FaultInit /\ [][FaultNext]_vars

\* LifeSpec: one visit of the page.  It is mounted, conversations are
\* activated and clicked, the chats table changes, and the page is unmounted
\* at any moment; the calls then in flight still complete.
LifeNext ==
  \/ ~unmounted /\ Mount /\ UNCHANGED << observed, elsewhere >>
  \/ FetchChatsResolve /\ UNCHANGED << observed, elsewhere >>
  \/ \E c \in ChatIds : FetchMessagesResolve(c) /\ UNCHANGED << observed, elsewhere >>
  \/ \E i \in 1..Cardinality(ChatsTable) : handleChatSelect(i) /\ UNCHANGED << observed, elsewhere >>
  \/ ChatChanged /\ UNCHANGED << observed, elsewhere >>
  \/ Unmount /\ UNCHANGED << observed, elsewhere >>

LifeSpec == Init /\ [][LifeNext]_vars

\* The variables of the chat page, its ChatBox and the messages store.
chatVars == << msgs, updateCalls, user, locationState, mounted, unmounted,
               channels, toasts, messageFilter, chats, messages, activeChat,
               isLoading, chatFetches, msgFetches, insertEvents, otherEvents,
               markTimer, newMessage, filePreview >>

\* TaskSpec: the Task page after its first fetchUserTasks found no task of
\* the user.  The user creates tasks and applies for the tasks of TaskIds,
\* calling a handler again before an earlier call has returned (up to
\* MaxCreates and MaxApplies calls under way).
TaskNext ==
  \/ user # NoUser /\ handleCreateTask
       /\ UNCHANGED << chatVars, observed, wizardVars >>
  \/ \E k \in 1..MaxCreates :
       CreateTaskResolve(k) /\ UNCHANGED << chatVars, observed, wizardVars >>
  \/ \E k \in 1..MaxCreates :
       CreateTaskFail(k) /\ UNCHANGED << chatVars, observed, wizardVars >>
  \/ \E t \in TaskIds :
       handleApplyForTask(t) /\ UNCHANGED << chatVars, observed, wizardVars >>
  \/ \E t \in TaskIds :
       ApplyCheckResolve(t) /\ UNCHANGED << chatVars, observed, wizardVars >>
  \/ \E t \in TaskIds :
       ApplyInsertResolve(t) /\ UNCHANGED << chatVars, observed, wizardVars >>
  \/ \E t \in TaskIds :
       ApplyFail(t) /\ UNCHANGED << chatVars, observed, wizardVars >>

\* the Task page is opened, signed in or not
TaskInit == Init /\ locationState = None

TaskSpec == TaskInit /\ [][TaskNext]_vars

\* WizardSpec: the ForgotPassword page from its first render until the
\* reset has navigated to the login page.
WizardNext ==
  \/ \E v \in Emails : setEmail(v) /\ UNCHANGED << chatVars, observed, taskVars >>
  \/ \E v \in Codes :
       handleOTPChange(v) /\ UNCHANGED << chatVars, observed, taskVars >>
  \/ \E v \in Passwords :
       setPassword(v) /\ UNCHANGED << chatVars, observed, taskVars >>
  \/ \E v \in Passwords :
       setConfirmPassword(v) /\ UNCHANGED << chatVars, observed, taskVars >>
  \/ handleSendResetLink /\ UNCHANGED << chatVars, observed, taskVars >>
  \/ handleVerifyOTP /\ UNCHANGED << chatVars, observed, taskVars >>
  \/ BackToEmail /\ UNCHANGED << chatVars, observed, taskVars >>
  \/ handleResetPassword /\ UNCHANGED << chatVars, observed, taskVars >>

WizardSpec == PlainInit /\ [][WizardNext]_vars

\* ---------------------------------------------------------------- claims
NoFetchInFlight == \A c \in ChatIds : msgFetches[c] = 0

\* the conversation of a feed entry
ChatOf(entry) == msgs[entry.id].chat_id

\* C1 (SwitchSpec): once the viewer has clicked c1, c2 and c3 in that order,
\* c3 is the active conversation and every fetchMessages call has resolved,
\* the feed holds messages of c3 only, whatever the order the calls resolved
\* in.
C1_FeedShowsLastSelected ==
  ( /\ clicks = Len(SwitchOrder)
    /\ activeChat.id = SwitchOrder[Len(SwitchOrder)]
    /\ NoFetchInFlight )
  => \A i \in DOMAIN messages : ChatOf(messages[i]) = SwitchOrder[Len(SwitchOrder)]

\* C2 (Spec): when the handler of an INSERT notification runs for a message
\* of a conversation other than the active one, the feed and the active
\* conversation stay as they are, and a re-fetch of the conversation index
\* is started.
C2_InsertForOtherConversation ==
  [][ \A id \in insertEvents :
        ( /\ id \notin insertEvents'
          /\ activeChat # NoChat
          /\ msgs[id].chat_id # activeChat.id )
        => ( /\ messages' = messages
             /\ activeChat' = activeChat
             /\ chatFetches' = chatFetches + 1 ) ]_vars

\* the messages of conversation c addressed to u that are not read
StoredUnread(store, c, u) ==
  { j \in RowsOfChat(store, c) : ~store[j].read /\ store[j].receiver_id = u }

\* C3 (Spec): every entry of the list a fetchChats call produces carries as
\* unreadCount the number of stored messages of its conversation that are
\* addressed to the viewer and not read.
C3_UnreadCountIsStoredUnread ==
  [][ chatFetches' < chatFetches
      => \A i \in DOMAIN chats' :
           chats'[i].unreadCount
             = Cardinality(StoredUnread(msgs, chats'[i].id, user)) ]_vars

\* the stored messages of conversation c that its other participant sent
Inbound(c) == { i \in RowsOfChat(msgs, c) : msgs[i].sender_id # Viewer }

\* C4 (OpenSpec): when conversation c1 held MaxUnread (3) unread messages of
\* its other participant as the page was opened, no message is ever named by
\* more than one update call: opening c1 issues one update call for all of
\* them and no other path issues a second one.
C4_OneUpdateCall ==
  Cardinality(Inbound("c1")) = MaxUnread
    => \A i \in Inbound("c1") : updateCalls[i] <= 1

\* the entries of the conversation list for conversation c
IndexEntries(c) == { i \in DOMAIN chats : chats[i].id = c }

\* every inbound message of c is read in the store, and the conversation
\* list reports no unread message for c
AllRead(c) ==
  /\ \A i \in Inbound(c) : msgs[i].read
  /\ IndexEntries(c) # {}
  /\ \A i \in IndexEntries(c) : chats[i].unreadCount = 0

C6_FeedOrdered ==
  \A i, j \in DOMAIN messages :
    i < j => messages[i].timestamp <= messages[j].timestamp

\* C7 (DebounceSpec): trailing-edge debounce.  A timeout is pending exactly
\* when the marker effect has run since the marker last ran, so that any
\* number of effect runs less than DebounceMs apart end in one run of the
\* marker; every effect run restarts the timeout, so that the marker is due
\* DebounceMs after the last of them.
C7_TrailingEdgeDebounce ==
  /\ (markTimer # NoTimer) = (burst > 0)
  /\ markTimer # NoTimer => markTimer + sinceChange = DebounceMs
  /\ coalesced > 0 /\ burst = 0 => sinceChange = DebounceMs

C7_Witness ==
  /\ coalesced >= 2
  /\ burst = 0
  /\ \E i \in DOMAIN updateCalls : updateCalls[i] > 0

\* C8 (ComposerSpec): with an empty or whitespace-only text and no staged
\* attachment, the composer's submit changes nothing: no row is inserted and
\* text box, staged attachment, feed and conversation list stay as they are.
C8_BlankSubmitIsNoOp ==
  ( /\ activeChat # NoChat
    /\ Trim(newMessage) = ""
    /\ filePreview = None )
  => ~ENABLED << ChatBoxSubmit /\ UNCHANGED << observed, elsewhere >> >>_vars

C8_Witness ==
  /\ activeChat # NoChat
  /\ newMessage = " "
  /\ filePreview = None
  /\ Len(msgs) < MaxMsgs

\* C9 (ComposerSpec): no step removes a stored message or takes its read
\* flag from true back to false, and every message is inserted with
\* read = false.
C9_ReadOnlyRises ==
  [][ /\ Len(msgs') >= Len(msgs)
      /\ \A i \in DOMAIN msgs : msgs[i].read => msgs'[i].read
      /\ \A i \in DOMAIN msgs' \ DOMAIN msgs : ~msgs'[i].read ]_vars

C9_Witness ==
  /\ \E i \in DOMAIN msgs : msgs[i].sender_id = Viewer
  /\ \E i \in DOMAIN msgs : msgs[i].read /\ updateCalls[i] >= 2

\* C10 (Spec): every entry of the conversation list is a conversation the
\* viewer takes part in, and its participantId is the participant of the
\* stored conversation who is not the viewer.
C10_ParticipantIsTheOther ==
  \A i \in DOMAIN chats :
    /\ user \in { ChatRow(chats[i].id).user1_id, ChatRow(chats[i].id).user2_id }
    /\ chats[i].participantId # user
    /\ chats[i].participantId
         \in { ChatRow(chats[i].id).user1_id, ChatRow(chats[i].id).user2_id }

C10_Witness ==
  /\ \E i \in DOMAIN chats : ChatRow(chats[i].id).user1_id = user
  /\ \E i \in DOMAIN chats : ChatRow(chats[i].id).user2_id = user

\* C11 (Spec): while a conversation is active, the messages subscription
\* that feeds the feed is filtered to that conversation.
C11_FilterIsActiveChat ==
  (mounted /\ activeChat # NoChat) => messageFilter = activeChat.id

\* the channels the rendered views hold: the page's two while it is
\* mounted, and ChatBox's for the active conversation
ChannelsOfViews ==
  [ n \in ChannelNames |->
      IF mounted /\ ( \/ n \in { ChatsChannel, MessagesChannel }
                      \/ (activeChat # NoChat /\ n = BoxChannel(activeChat.id)) )
      THEN 1 ELSE 0 ]

\* C12 (LifeSpec): the open channels are those of the views that are
\* rendered, one handle each, through mount, every change of the active
\* conversation and unmount; after unmount none is open.
C12_ChannelsReleased ==
  /\ channels = ChannelsOfViews
  /\ unmounted => \A n \in ChannelNames : channels[n] = 0

C12_Witness ==
  /\ unmounted
  /\ activeChat.id = "c1"
  /\ \A n \in ChannelNames : channels[n] = 0

\* ids of the messages in the feed `feed`
FeedIds(feed) == { feed[i].id : i \in DOMAIN feed }

\* C13 (ComposerSpec): a step that inserts a message leaves the feed as it
\* is, and a message enters the feed only in a step of the notification
\* handler for it or in a step in which a fetchMessages call resolves.
C13_NoOptimisticAppend ==
  [][ /\ Len(msgs') > Len(msgs) => messages' = messages
      /\ \A id \in FeedIds(messages') \ FeedIds(messages) :
           \/ id \in insertEvents /\ id \notin insertEvents'
           \/ \E c \in ChatIds : msgFetches'[c] < msgFetches[c] ]_vars

C13_Witness ==
  /\ \E i \in DOMAIN msgs : msgs[i].sender_id = Viewer /\ i \notin FeedIds(messages)
  /\ \E i \in DOMAIN msgs : msgs[i].sender_id = Viewer /\ i \in FeedIds(messages)

\* the step is an accepted submit of the composer that inserts a message
\* (a message of another participant leaves the composer as it is)
ComposerInserts ==
  /\ Len(msgs') > Len(msgs)
  /\ SubmitAccepted(newMessage, filePreview)
  /\ newMessage' = ""
  /\ filePreview' = None

\* C14 (ComposerSpec): a message the composer inserts belongs to the active
\* conversation, is sent by the user to the other participant of that
\* conversation (never to the sender), carries the submitted text and is
\* unread; none is inserted without a user or an active conversation.
C14_InsertedRow ==
  [][ ComposerInserts =>
        /\ user # NoUser /\ activeChat # NoChat
        /\ Len(msgs') = Len(msgs) + 1
        /\ msgs'[Len(msgs')].chat_id = activeChat.id
        /\ msgs'[Len(msgs')].sender_id = user
        /\ msgs'[Len(msgs')].receiver_id
             = ParticipantId(ChatRow(activeChat.id), user)
        /\ msgs'[Len(msgs')].receiver_id # msgs'[Len(msgs')].sender_id
        /\ msgs'[Len(msgs')].content = newMessage
        /\ ~msgs'[Len(msgs')].read ]_vars

C14_Witness ==
  \E i \in DOMAIN msgs :
    /\ msgs[i].sender_id = Viewer
    /\ msgs[i].chat_id = activeChat.id
    /\ msgs[i].receiver_id = "R"
    /\ msgs[i].content = "hi"

\* the rows of conversation c with the greatest timestamp
LatestRows(store, c) ==
  { i \in RowsOfChat(store, c) :
      \A j \in RowsOfChat(store, c) : store[j].timestamp <= store[i].timestamp }

\* the timestamp of the most recent message of conversation c (which has one)
LatestTime(store, c) ==
  store[CHOOSE i \in LatestRows(store, c) : TRUE].timestamp

\* C15 (Spec): in the list a fetchChats call produces, a conversation whose
\* latest message is newer comes before one whose latest message is older.
C15_MostRecentFirst ==
  [][ chatFetches' < chatFetches
      => \A i, j \in DOMAIN chats' :
           ( /\ i < j
             /\ RowsOfChat(msgs, chats'[i].id) # {}
             /\ RowsOfChat(msgs, chats'[j].id) # {} )
           => LatestTime(msgs, chats'[i].id) >= LatestTime(msgs, chats'[j].id) ]_vars

\* the step is a run of the marker (its timeout fires)
MarkerRuns == markTimer # NoTimer /\ markTimer' = NoTimer /\ ~unmounted'

\* the rows an update call of the step names
Named == { i \in DOMAIN updateCalls : updateCalls'[i] > updateCalls[i] }

\* C16 (BystanderSpec): the update call of a marker run names only messages
\* of the feed that are addressed to the viewer and unread as loaded.
C16_MarkerNamesAddressedUnread ==
  [][ MarkerRuns =>
        Named \subseteq { messages[i].id : i \in { j \in DOMAIN messages :
                              /\ messages[j].receiverId = user
                              /\ ~messages[j].read } } ]_vars

\* C17 (Spec): a marker run issues no update when there is no user or the
\* feed is empty.
C17_MarkerNoOp ==
  [][ (MarkerRuns /\ (user = NoUser \/ messages = << >>))
      => (msgs' = msgs /\ updateCalls' = updateCalls) ]_vars

C17_Witness ==
  /\ activeChat # NoChat
  /\ messages = << >>
  /\ markTimer # NoTimer
  /\ UnreadOfFetch(msgs, activeChat.id, user) # {}

\* C18 (OpenSpec): a fetchChats call that resolves while a conversation is
\* active leaves that conversation active.
C18_RefetchKeepsActive ==
  [][ (chatFetches' < chatFetches /\ activeChat # NoChat)
      => activeChat'.id = activeChat.id ]_vars

\* C19 (Spec): when the navigation state names a conversation of the
\* fetched list, the fetchChats call that resolves makes it the active one
\* and starts fetchMessages for it.
C19_NavigationTarget ==
  [][ ( /\ chatFetches' < chatFetches
        /\ \E i \in DOMAIN chats' : chats'[i].id = locationState )
      => ( /\ activeChat'.id = locationState
           /\ msgFetches'[locationState] = msgFetches[locationState] + 1 ) ]_vars

C19_Witness ==
  /\ locationState = "c2"
  /\ activeChat.id = "c2"
  /\ chats # << >> /\ chats[1].id # "c2"
  /\ \E i \in DOMAIN messages : ChatOf(messages[i]) = "c2"

\* C20 (Spec): in the list a fetchChats call produces, the preview of a
\* conversation that has messages is the content and the timestamp of its
\* most recent message.
C20_PreviewIsLatest ==
  [][ chatFetches' < chatFetches
      => \A i \in DOMAIN chats' :
           RowsOfChat(msgs, chats'[i].id) # {}
           => /\ chats'[i].lastMessageTime = LatestTime(msgs, chats'[i].id)
              /\ \E r \in LatestRows(msgs, chats'[i].id) :
                   chats'[i].lastMessage = msgs[r].content ]_vars

\* C21 (FaultSpec): a step in which fetchChats, fetchMessages or
\* handleSendMessage raises its error toast leaves the conversation list,
\* the feed, the active conversation and the store as they are and starts
\* no call.
C21_FailureLeavesState ==
  [][ (toasts' \ toasts) \cap { ChatsToast, MessagesToast, SendToast } # {}
      => /\ chats' = chats
         /\ messages' = messages
         /\ activeChat' = activeChat
         /\ msgs' = msgs
         /\ chatFetches' <= chatFetches
         /\ \A c \in ChatIds : msgFetches'[c] <= msgFetches[c] ]_vars

C21_Witness ==
  /\ { ChatsToast, MessagesToast, SendToast } \subseteq toasts
  /\ chats # << >>
  /\ activeChat # NoChat

\* C22 (FaultSpec): when the handler of an INSERT notification for a
\* message addressed to the user runs and its update does not take (the
\* message stays unread in the store), the message is appended to the feed,
\* fetchChats is started and no toast is raised.
C22_FailedUpdateSwallowed ==
  [][ \A id \in insertEvents :
        ( /\ id \notin insertEvents'
          /\ msgs[id].receiver_id = user
          /\ ~msgs[id].read /\ ~msgs'[id].read )
        => ( /\ Len(messages') = Len(messages) + 1
             /\ messages'[Len(messages')].id = id
             /\ chatFetches' = chatFetches + 1
             /\ toasts' = toasts ) ]_vars

C22_Witness ==
  /\ insertEvents = {}
  /\ \E i \in DOMAIN messages :
       /\ messages[i].receiverId = user
       /\ ~msgs[messages[i].id].read
       /\ updateCalls[messages[i].id] = 0

\* C27 (FaultSpec): a step that ends a fetchChats call, by success or by
\* failure, leaves isLoading false, and so does its early return without a
\* user: whenever the page is mounted and no fetchChats call is in flight,
\* isLoading is false.
C27_LoadingCleared ==
  [][ /\ chatFetches' < chatFetches => ~isLoading'
      /\ (mounted' /\ chatFetches' = 0) => ~isLoading' ]_vars

C27_Witness ==
  /\ mounted
  /\ chatFetches = 0
  /\ ChatsToast \in toasts
  /\ ~isLoading

\* C28 (FaultSpec): a step in which an accepted submit inserts the user's
\* message, or in which its insert fails (the toast of handleSendMessage is
\* raised), leaves the text box empty and no attachment staged.
C28_ComposerCleared ==
  [][ ( \/ /\ Len(msgs') > Len(msgs)
           /\ msgs'[Len(msgs')].sender_id = user
        \/ SendToast \in toasts' \ toasts )
      => (newMessage' = "" /\ filePreview' = None) ]_vars

C28_Witness ==
  /\ SendToast \in toasts
  /\ msgs = << >>
  /\ newMessage = ""
  /\ filePreview = None

\* the name shown for user id: the profile's username, or the placeholder
ShownName(id) == IF Username(id) \in { "vera", "paul", "quin" }
                 THEN Username(id) ELSE "Unknown User"

\* C23 (Spec): a fetchChats call that resolves lists every conversation of
\* the user, and a fetchMessages call that resolves every message of its
\* conversation, each with the username of the participant or sender, or
\* with "Unknown User" where the profile lookup gave none.
C23_UnknownUserPlaceholder ==
  [][ /\ chatFetches' < chatFetches
         => /\ { chats'[i].id : i \in DOMAIN chats' }
                 = { c.id : c \in ChatsOfUser(user) }
            /\ \A i \in DOMAIN chats' :
                 chats'[i].participantName = ShownName(chats'[i].participantId)
      /\ \A c \in ChatIds :
           msgFetches'[c] < msgFetches[c]
           => /\ FeedIds(messages') = RowsOfChat(msgs, c)
              /\ \A i \in DOMAIN messages' :
                   messages'[i].senderName = ShownName(messages'[i].senderId) ]_vars

C23_Witness ==
  /\ \E i \in DOMAIN chats : chats[i].participantName = "Unknown User"
  /\ \E i \in DOMAIN chats : chats[i].participantName = "paul"
  /\ \E i \in DOMAIN messages : messages[i].senderName = "Unknown User"
  /\ Len(messages) >= 2

\* C24 (Spec): no two entries of the feed have the same message id.
C24_NoDuplicateIds ==
  \A i, j \in DOMAIN messages : i # j => messages[i].id # messages[j].id

\* the user's active rows of the tasks table
ActiveCreated ==
  Cardinality({ i \in DOMAIN tasksTable :
                  /\ tasksTable[i].status = "active"
                  /\ tasksTable[i].creator_id = user })

\* C25 (TaskSpec): the tasks table never holds more than TaskLimit active
\* tasks of the user, however the handleCreateTask calls interleave.
C25_ActiveTaskLimit == ActiveCreated <= TaskLimit

\* C26 (TaskSpec): the task_applications table never holds two rows of the
\* user for the same task, however the handleApplyForTask calls interleave.
C26_OneApplicationPerTask == \A t \in TaskIds : applications[t] <= 1

\* C29 (WizardSpec): the step changes only from email to otp with an email
\* that contains '@', from otp to newPassword with a code of OtpLength
\* characters, from otp back to email, and from newPassword to email by a
\* reset that navigates to the login page; whenever the step is newPassword
\* the code submitted in the otp step has OtpLength characters.
C29_StepOrder ==
  [][ /\ step' # step =>
           \/ step = "email" /\ step' = "otp" /\ Includes(email, "@")
           \/ step = "otp" /\ step' = "newPassword" /\ Len(otp) = OtpLength
           \/ step = "otp" /\ step' = "email"
           \/ /\ step = "newPassword" /\ step' = "email"
              /\ path' = "/login"
              /\ "Password Reset Successfully!" \in wizardToasts'
      /\ step' = "newPassword" =>
           /\ Len(otp') = OtpLength
           /\ "Code Verified!" \in wizardToasts' ]_vars

\* every edge has been taken: a code was refused, the user went back to the
\* email step, came to the newPassword step and reset the password
C29_Witness ==
  /\ path = "/login"
  /\ step = "email"
  /\ "Invalid Code" \in wizardToasts
  /\ "Invalid email" \in wizardToasts
  /\ "Code Verified!" \in wizardToasts

\* the four fields are empty
FieldsCleared ==
  /\ email = << >>
  /\ otp = << >>
  /\ password = << >>
  /\ confirmPassword = << >>

\* C30 (WizardSpec): handleResetPassword navigates to the login page only
\* with a password that equals its confirmation and has at least MinPassword
\* characters, and then the four fields are empty and the step is email; a
\* call with other passwords leaves the step, the four fields and the route
\* as they are.
C30_ResetValidated ==
  [][ /\ path' # path =>
           /\ password = confirmPassword
           /\ Len(password) >= MinPassword
      /\ handleResetPassword =>
           IF password = confirmPassword /\ Len(password) >= MinPassword
             THEN /\ FieldsCleared'
                  /\ step' = "email"
                  /\ path' = "/login"
             ELSE UNCHANGED << email, otp, password, confirmPassword, step,
                               path >> ]_vars

\* a reset was refused for each of the two reasons and then succeeded
C30_Witness ==
  /\ path = "/login"
  /\ FieldsCleared
  /\ step = "email"
  /\ "Passwords don't match" \in wizardToasts
  /\ "Password too short" \in wizardToasts

====
